---- MODULE Spec2Model ----
(***************************************************************************)
(* Transcript Improver & Summarizer: the controller of src/App.tsx over    *)
(* the three variants of the Gemini service kept in the repository         *)
(*   "module" : src/services/geminiService.ts lines 1-75 (module client)   *)
(*   "env"    : src/services/geminiService.ts lines 76-146 (getAiClient)   *)
(*   "local"  : src/unnamed/part_000 (getAiClient over localStorage)       *)
(* Texts are sequences of one-character strings.  Error messages are       *)
(* sequences of fragments, so that String.includes is a search and the     *)
(* service's re-wrapping is a concatenation.                               *)
(***************************************************************************)
EXTENDS Integers, Sequences, FiniteSets, TLC

(***************************************************************************)
(* variant         the version of the service that is loaded               *)
(* apiKey          the stored credential: process.env.API_KEY              *)
(*                 (geminiService.ts:82), localStorage in part_000:7       *)
(* moduleKey       const API_KEY read at module load (geminiService.ts:6)  *)
(* inputText, isLoading, isTranslating, error, result, hasApiKey,          *)
(* checkingApiKey  the useState cells of App (App.tsx:34-41)               *)
(* selecting       handleSelectKey awaits openSelectKey (App.tsx:63)       *)
(* reading         a FileReader has been started (App.tsx:173)             *)
(* runs            invocations of handleProcessText / handleTranslate      *)
(*                 suspended at their await (App.tsx:98, 117)              *)
(* calls           generateContent requests awaiting their answer          *)
(* ev              history: what the last step did for a run               *)
(***************************************************************************)
VARIABLES variant, apiKey, moduleKey, inputText, isLoading, isTranslating,
          error, result, hasApiKey, checkingApiKey, selecting, reading,
          runs, calls, ev

vars == <<variant, apiKey, moduleKey, inputText, isLoading, isTranslating,
          error, result, hasApiKey, checkingApiKey, selecting, reading,
          runs, calls, ev>>

(***************************************************************************)
(* Bounds                                                                  *)
(***************************************************************************)
\* remote calls that may be outstanding at once
MaxCalls == 3

\* distinct non-empty texts the model endpoint may answer with
MaxTexts == 1

(***************************************************************************)
(* Values                                                                  *)
(***************************************************************************)
Variants == {"module", "env", "local"}

\* process.env.API_KEY / localStorage item not set
NoKey == ""

Keys == {"k1", "k2"}

\* useState<ProcessedData | null>(null)
Null == [null |-> TRUE]

\* useState<string | null>(null): no message the code sets is the empty string
NoError == <<>>

ModelTexts == << <<"A">>, <<"B">>, <<"C">>, <<"D">> >>

\* the non-empty answers of the endpoint, MaxTexts of them
TextPool == {ModelTexts[i] : i \in 1..MaxTexts}

\* what the textarea or an uploaded file may hold
Inputs == { <<>>,
            <<" ">>,
            <<"0", ":", "0", "5">>,
            <<"0", ":", "0", "5", " ", "H", "i">> }

(***************************************************************************)
(* removeTimestamps: text.replace(/(\[\d{2}:\d{2}:\d{2}\]|\d{1,2}:\d{2})\s?/g, '').trim() *)
(***************************************************************************)
IsDigit(c) == c \in {"0", "1", "2", "3", "4", "5", "6", "7", "8", "9"}

IsSpace(c) == c \in {" ", "\n", "\t"}

DigitAt(s, i) == i >= 1 /\ i <= Len(s) /\ IsDigit(s[i])

CharAt(s, i, c) == i >= 1 /\ i <= Len(s) /\ s[i] = c

\* the match of (\[\d{2}:\d{2}:\d{2}\]|\d{2}:\d{2}): no one-digit form
StampLenTwoDigits(s, i) ==
    IF /\ CharAt(s, i, "[") /\ DigitAt(s, i+1) /\ DigitAt(s, i+2) /\ CharAt(s, i+3, ":")
       /\ DigitAt(s, i+4) /\ DigitAt(s, i+5) /\ CharAt(s, i+6, ":")
       /\ DigitAt(s, i+7) /\ DigitAt(s, i+8) /\ CharAt(s, i+9, "]")
    THEN 10
    ELSE IF /\ DigitAt(s, i) /\ DigitAt(s, i+1) /\ CharAt(s, i+2, ":")
            /\ DigitAt(s, i+3) /\ DigitAt(s, i+4)
    THEN 5
    ELSE 0

\* length of the match of (\[\d{2}:\d{2}:\d{2}\]|\d{1,2}:\d{2}) at position i, 0 if none
StampLen(s, i) ==
    IF /\ CharAt(s, i, "[") /\ DigitAt(s, i+1) /\ DigitAt(s, i+2) /\ CharAt(s, i+3, ":")
       /\ DigitAt(s, i+4) /\ DigitAt(s, i+5) /\ CharAt(s, i+6, ":")
       /\ DigitAt(s, i+7) /\ DigitAt(s, i+8) /\ CharAt(s, i+9, "]")
    THEN 10
    ELSE IF /\ DigitAt(s, i) /\ DigitAt(s, i+1) /\ CharAt(s, i+2, ":")
            /\ DigitAt(s, i+3) /\ DigitAt(s, i+4)
    THEN 5
    ELSE IF DigitAt(s, i) /\ CharAt(s, i+1, ":") /\ DigitAt(s, i+2) /\ DigitAt(s, i+3)
    THEN 4
    ELSE 0

\* length of the whole match at i: the marker and the optional \s
MatchLen(s, i) ==
    LET m == StampLen(s, i)
    IN  IF m = 0 THEN 0
        ELSE IF i + m <= Len(s) /\ IsSpace(s[i + m]) THEN m + 1 ELSE m

\* the replace of a pattern anchored at line starts (/^.../gm)
RECURSIVE ReplaceFromAnchored(_, _)
ReplaceFromAnchored(s, i) ==
    IF i > Len(s) THEN <<>>
    ELSE IF MatchLen(s, i) > 0 /\ (i = 1 \/ s[i - 1] = "\n")
    THEN ReplaceFromAnchored(s, i + MatchLen(s, i))
    ELSE <<s[i]>> \o ReplaceFromAnchored(s, i + 1)

\* text.replace(re, '') with the global flag: every match, left to right
RECURSIVE ReplaceFrom(_, _)
ReplaceFrom(s, i) ==
    IF i > Len(s) THEN <<>>
    ELSE IF MatchLen(s, i) > 0 THEN ReplaceFrom(s, i + MatchLen(s, i))
    ELSE <<s[i]>> \o ReplaceFrom(s, i + 1)

RECURSIVE TrimStart(_)
TrimStart(s) ==
    IF s # <<>> /\ IsSpace(Head(s)) THEN TrimStart(Tail(s)) ELSE s

RECURSIVE TrimEnd(_)
TrimEnd(s) ==
    IF s # <<>> /\ IsSpace(s[Len(s)]) THEN TrimEnd(SubSeq(s, 1, Len(s) - 1)) ELSE s

\* String.prototype.trim
Trim(s) == TrimEnd(TrimStart(s))

removeTimestamps(text) == Trim(ReplaceFrom(text, 1))

(***************************************************************************)
(* Error messages                                                          *)
(***************************************************************************)
\* a thrown value: an Error with a message, or something that is no Error
Err(m) == [isError |-> TRUE, message |-> m]

NotAnError == [isError |-> FALSE, message |-> <<>>]

SigNotFound == "Requested entity was not found"

SigKeyNotValid == "API key not valid"

\* what a rejected generateContent call may carry
RemoteFailures == { Err(<<SigNotFound>>), Err(<<SigKeyNotValid>>), Err(<<"fetch failed">>) }

\* String.prototype.includes over fragments
Includes(m, sig) == \E i \in 1..Len(m) : m[i] = sig

MsgInvalidKey == <<"Your API key appears to be invalid. Please select a valid API key to continue.">>

MsgUnknown == <<"An unknown error occurred.">>

MsgNoInput == <<"Please paste some text to process.">>

MsgKeyService == <<"Could not connect to the API key service. Please refresh the page.">>

MsgKeyDialog == <<"Could not open the API key selection dialog. Please try refreshing the page.">>

MsgBadFile == <<"Please upload a valid .txt file.">>

MsgFileRead == <<"Failed to read the file.">>

(***************************************************************************)
(* The service: getAiClient, the catch blocks, the empty-answer checks     *)
(***************************************************************************)
MsgNoKey(v) ==
    IF v = "module" THEN <<"API key is not configured. Please set it in your deployment environment.">>
    ELSE IF v = "env" THEN <<"Gemini API key not found. Please select an API key to use this application.">>
    ELSE <<"Chiave API di Gemini non trovata nell'archivio locale. Per favore, imposta la tua chiave API nell'applicazione.">>

\* the key the client of a run is built with: the module-level client holds
\* the key read when the module was loaded, getAiClient reads the store
ClientKey(v, loaded, store) == IF v = "module" THEN loaded ELSE store

\* the client of a run, or the throw that precedes the try block
getAiClient(v, loaded, store) ==
    IF ClientKey(v, loaded, store) = NoKey
    THEN [ok |-> FALSE, key |-> NoKey, err |-> Err(MsgNoKey(v))]
    ELSE [ok |-> TRUE, key |-> ClientKey(v, loaded, store), err |-> NotAnError]

EmptyImprove(v) ==
    IF v = "local" THEN Err(<<"Il miglioramento del testo e fallito o non ha restituito alcun risultato.">>)
    ELSE Err(<<"Improving the text failed or returned empty.">>)

EmptySummary(v) ==
    IF v = "local" THEN Err(<<"La creazione del riassunto e fallita o non ha restituito alcun risultato.">>)
    ELSE Err(<<"Summarization failed or returned empty.">>)

EmptyTranslation(v) ==
    IF v = "local" THEN Err(<<"La traduzione e fallita o non ha restituito alcun risultato.">>)
    ELSE Err(<<"Translation failed or returned empty.">>)

\* catch (error) of processTranscript
WrapProcess(v, e) ==
    IF v = "local"
    THEN IF e.isError
         THEN IF Includes(e.message, SigKeyNotValid)
              THEN Err(<<"La tua chiave API di Gemini non e valida. Controllala e riprova.">>)
              ELSE Err(<<"Impossibile elaborare il testo con l'API Gemini: ">> \o e.message)
         ELSE Err(<<"Si e verificato un errore sconosciuto durante l'elaborazione del testo con l'API Gemini.">>)
    ELSE IF e.isError
         THEN Err(<<"Failed to process text with Gemini API: ">> \o e.message)
         ELSE Err(<<"An unknown error occurred while processing text with Gemini API.">>)

\* catch (error) of translateToItalian
WrapTranslate(v, e) ==
    IF v = "local"
    THEN IF e.isError
         THEN Err(<<"Impossibile tradurre il testo con l'API Gemini: ">> \o e.message)
         ELSE Err(<<"Si e verificato un errore sconosciuto durante la traduzione del testo con l'API Gemini.">>)
    ELSE IF e.isError
         THEN Err(<<"Failed to translate text with Gemini API: ">> \o e.message)
         ELSE Err(<<"An unknown error occurred while translating text with Gemini API.">>)

\* what a generateContent call may settle with: a text (possibly empty) or a failure
Responses == {[ok |-> TRUE, text |-> t, err |-> NotAnError] : t \in TextPool \cup {<<>>}}
             \cup {[ok |-> FALSE, text |-> <<>>, err |-> e] : e \in RemoteFailures}

(***************************************************************************)
(* The controller: handleApiError and the guards of the rendered controls  *)
(***************************************************************************)
\* handleApiError without setHasApiKey(false)
handleApiErrorKeepsKey(err, flag) ==
    IF err.isError /\ Includes(err.message, SigNotFound)
    THEN [error |-> MsgInvalidKey, hasApiKey |-> flag, handled |-> TRUE]
    ELSE [error |-> IF err.isError THEN err.message ELSE MsgUnknown,
          hasApiKey |-> flag, handled |-> FALSE]

\* handleApiError that never takes err.message
handleApiErrorGeneric(err, flag) ==
    IF err.isError /\ Includes(err.message, SigNotFound)
    THEN [error |-> MsgInvalidKey, hasApiKey |-> FALSE, handled |-> TRUE]
    ELSE [error |-> MsgUnknown, hasApiKey |-> flag, handled |-> FALSE]

\* handleApiError: the error to show, the credential flag, the return value
handleApiError(err, flag) ==
    IF err.isError /\ Includes(err.message, SigNotFound)
    THEN [error |-> MsgInvalidKey, hasApiKey |-> FALSE, handled |-> TRUE]
    ELSE [error |-> IF err.isError THEN err.message ELSE MsgUnknown,
          hasApiKey |-> flag, handled |-> FALSE]

\* the main view is rendered: neither "Verifying API Key..." nor "API Key Required"
MainView == ~checkingApiKey /\ hasApiKey

\* the "API Key Required" view is rendered
KeyView == ~checkingApiKey /\ ~hasApiKey

\* Improve & Summarize with disabled={!inputText.trim()}
ProcessEnabledWhileLoading == MainView /\ ~(Trim(inputText) = <<>>)

\* disabled={isLoading || !inputText.trim()} of Improve & Summarize
ProcessEnabled == MainView /\ ~(isLoading \/ Trim(inputText) = <<>>)

\* a Translate button with disabled={isTranslating}
TranslateEnabledAgain == MainView /\ result # Null /\ ~isTranslating

\* the Translate button is rendered under {result && ...}
\* with disabled={isTranslating || !!result.translatedImprovedText}
TranslateEnabled ==
    /\ MainView
    /\ result # Null
    /\ ~(isTranslating \/ "translatedImprovedText" \in DOMAIN result)

\* disabled={!inputText.trim() || isLoading} of Clear
ClearEnabled == MainView /\ ~(Trim(inputText) = <<>> \/ isLoading)

\* disabled={isLoading} of the textarea and of Upload File
InputEnabled == MainView /\ ~isLoading

\* handleProcessText whose catch returns without clearing and has no finally
LoadingAfterCatchNoFinally(handled) == IF handled THEN isLoading ELSE FALSE

\* isLoading after the catch and finally blocks of handleProcessText
LoadingAfterCatch(handled) == FALSE

\* handleTranslate without its finally block: the catch alone clears the flag
TranslatingAfterCatchNoFinally(handled) == IF handled THEN FALSE ELSE isTranslating

\* isTranslating after the catch and finally blocks of handleTranslate
TranslatingAfterCatch(handled) == FALSE

\* a merge that writes the first translation alone
MergeTranslationPartial(prev, ti, ts) ==
    LET base == IF prev = Null THEN {} ELSE DOMAIN prev
    IN  [f \in base \cup {"translatedImprovedText"} |->
            IF f = "translatedImprovedText" THEN ti ELSE prev[f]]

\* setResult(prev => ({...prev!, translatedImprovedText, translatedSummary}))
MergeTranslation(prev, ti, ts) ==
    LET base == IF prev = Null THEN {} ELSE DOMAIN prev
    IN  [f \in base \cup {"translatedImprovedText", "translatedSummary"} |->
            IF f = "translatedImprovedText" THEN ti
            ELSE IF f = "translatedSummary" THEN ts
            ELSE prev[f]]

(***************************************************************************)
(* Runs in flight, calls in flight, the last step taken                    *)
(***************************************************************************)
UsedIds == {r.id : r \in runs} \cup {c.run : c \in calls}

\* the identity of a new run: the least number no run or call in flight bears
FreeId == CHOOSE i \in 0..(2 * MaxCalls + 1) :
              i \notin UsedIds /\ \A j \in 0..(i - 1) : j \in UsedIds

\* a run of handleProcessText (stage 1) or handleTranslate (stage 2) that has
\* not settled: its client, the improved text once known, the translations
\* received so far; before and store record the result and the stored key
\* found when the run began, overtaken that handleProcessText ran since
NewRun(id, stage, key) ==
    [id |-> id, stage |-> stage, client |-> key, improved |-> <<>>,
     tImproved |-> <<>>, tSummary |-> <<>>, before |-> result, store |-> apiKey,
     overtaken |-> FALSE]

\* a run in flight, seen after handleProcessText began another run: the
\* result a Stage-2 run was started on has been replaced
Overtaken(r) == IF r.stage = 2 THEN [r EXCEPT !.overtaken = TRUE] ELSE r

\* a generateContent request awaiting its answer
NewCall(id, kind, text, key, store) ==
    [run |-> id, kind |-> kind, text |-> text, key |-> key, store |-> store]

RunsOf(stage) == {r \in runs : r.stage = stage}

RunOf(c) == CHOOSE r \in runs : r.id = c.run

\* raw is the failure of the remote call behind thrown (NotAnError when the
\* rejection did not come from the endpoint); overtaken tells that a Stage-1
\* run was started while the settled Stage-2 run was in flight
EvNone == [type |-> "none", stage |-> 0, ok |-> TRUE, thrown |-> NotAnError,
           raw |-> NotAnError, before |-> Null, pre |-> Null, hadKey |-> FALSE,
           overtaken |-> FALSE]

\* handleProcessText returned at its check of the input
EvBlank == [EvNone EXCEPT !.type = "blank"]

\* handleFileChange took a file: accepted for reading (ok) or rejected
EvFile(ok) == [EvNone EXCEPT !.type = "file", !.ok = ok]

\* one or more calls were issued by a run of the stage
EvIssue(stage) == [EvNone EXCEPT !.type = "issue", !.stage = stage]

\* a run of the stage settled: fulfilled (ok) or rejected with thrown
\* before is the result found when the run began, pre the result found when
\* the settling was handled
EvSettle(stage, ok, thrown, before, pre) ==
    [type |-> "settle", stage |-> stage, ok |-> ok, thrown |-> thrown,
     raw |-> NotAnError, before |-> before, pre |-> pre, hadKey |-> hasApiKey,
     overtaken |-> FALSE]

Init ==
    /\ variant \in Variants
    /\ apiKey \in {NoKey, "k1"}
    /\ moduleKey = IF variant = "module" THEN apiKey ELSE NoKey
    /\ inputText = <<>>
    /\ isLoading = FALSE
    /\ isTranslating = FALSE
    /\ error = NoError
    /\ result = Null
    /\ hasApiKey = FALSE
    /\ checkingApiKey = TRUE
    /\ selecting = FALSE
    /\ reading = FALSE
    /\ runs = {}
    /\ calls = {}
    /\ ev = EvNone

(***************************************************************************)
(* Credential acquisition                                                  *)
(***************************************************************************)
\* checkKey of the mount effect: hasSelectedApiKey answers or throws
CheckKey(throws) ==
    /\ checkingApiKey
    /\ checkingApiKey' = FALSE
    /\ IF throws
       THEN error' = MsgKeyService /\ UNCHANGED hasApiKey
       ELSE /\ hasApiKey' = IF apiKey # NoKey THEN TRUE ELSE hasApiKey
            /\ UNCHANGED error
    /\ ev' = EvNone
    /\ UNCHANGED <<variant, apiKey, moduleKey, inputText, isLoading, isTranslating,
                   result, selecting, reading, runs, calls>>

\* handleSelectKey up to its await
OpenSelectKey ==
    /\ KeyView
    /\ ~selecting
    /\ error' = NoError
    /\ selecting' = TRUE
    /\ ev' = EvNone
    /\ UNCHANGED <<variant, apiKey, moduleKey, inputText, isLoading, isTranslating,
                   result, hasApiKey, checkingApiKey, reading, runs, calls>>

\* handleSelectKey after its await: a key was picked, the dialog was closed
\* without a pick ("assume success"), or openSelectKey rejected
SelectKeyDone(o) ==
    /\ selecting
    /\ selecting' = FALSE
    /\ IF o = "rejected"
       THEN error' = MsgKeyDialog /\ UNCHANGED <<hasApiKey, apiKey>>
       ELSE /\ hasApiKey' = TRUE
            /\ apiKey' = IF o \in Keys THEN o ELSE apiKey
            /\ UNCHANGED error
    /\ ev' = EvNone
    /\ UNCHANGED <<variant, moduleKey, inputText, isLoading, isTranslating,
                   result, checkingApiKey, reading, runs, calls>>

(***************************************************************************)
(* Input                                                                   *)
(***************************************************************************)
\* onChange of the textarea
ChangeInput(v) ==
    /\ InputEnabled
    /\ v # inputText
    /\ inputText' = v
    /\ ev' = EvNone
    /\ UNCHANGED <<variant, apiKey, moduleKey, isLoading, isTranslating, error,
                   result, hasApiKey, checkingApiKey, selecting, reading, runs, calls>>

\* file.type of the files that may be chosen, in fragments
FileTypes == { <<"text/", "plain">>, <<"text/", "plain", ";charset=utf-8">>,
               <<"text/", "html">>, <<"image/", "png">>, <<>> }

\* String.prototype.startsWith over fragments
StartsWith(s, prefix) ==
    Len(s) >= Len(prefix) /\ SubSeq(s, 1, Len(prefix)) = prefix

\* a check of the top-level type alone
AcceptsFileAnyText(type) == StartsWith(type, <<"text/">>)

\* file.type.startsWith('text/plain')
AcceptsFile(type) == StartsWith(type, <<"text/", "plain">>)

\* handleFileChange with a file of the type chosen
handleFileChange(type) ==
    /\ InputEnabled
    /\ ~reading
    /\ IF AcceptsFile(type)
       THEN error' = NoError /\ reading' = TRUE
       ELSE error' = MsgBadFile /\ UNCHANGED reading
    /\ ev' = EvFile(AcceptsFile(type))
    /\ UNCHANGED <<variant, apiKey, moduleKey, inputText, isLoading, isTranslating,
                   result, hasApiKey, checkingApiKey, selecting, runs, calls>>

\* reader.onload with the text of the file
ReaderLoad(text) ==
    /\ reading
    /\ reading' = FALSE
    /\ inputText' = text
    /\ ev' = EvNone
    /\ UNCHANGED <<variant, apiKey, moduleKey, isLoading, isTranslating, error,
                   result, hasApiKey, checkingApiKey, selecting, runs, calls>>

\* reader.onerror
ReaderError ==
    /\ reading
    /\ reading' = FALSE
    /\ error' = MsgFileRead
    /\ ev' = EvNone
    /\ UNCHANGED <<variant, apiKey, moduleKey, inputText, isLoading, isTranslating,
                   result, hasApiKey, checkingApiKey, selecting, runs, calls>>

handleClearText ==
    /\ ClearEnabled
    /\ inputText' = <<>>
    /\ result' = Null
    /\ error' = NoError
    /\ ev' = EvNone
    /\ UNCHANGED <<variant, apiKey, moduleKey, isLoading, isTranslating,
                   hasApiKey, checkingApiKey, selecting, reading, runs, calls>>

(***************************************************************************)
(* Stage 1: handleProcessText over processTranscript                       *)
(***************************************************************************)
\* the value `${x}` interpolates for a field the object does not have
Undefined == <<"undefined">>

Field(obj, f) == IF f \in DOMAIN obj THEN obj[f] ELSE Undefined

\* catch and finally of handleProcessText
Stage1Rejected(thrown, raw, before, pre) ==
    LET h == handleApiError(thrown, hasApiKey)
    IN  /\ error' = h.error
        /\ hasApiKey' = h.hasApiKey
        /\ isLoading' = LoadingAfterCatch(h.handled)
        /\ ev' = [EvSettle(1, FALSE, thrown, before, pre) EXCEPT !.raw = raw]

\* setResult(null) without the state update
ResultOnStartKept == result

\* the result after setResult(null) of handleProcessText
ResultOnStart == Null

\* the input check of handleProcessText without the trim
IsBlankUntrimmed(text) == text = <<>>

\* !inputText.trim()
IsBlank(text) == Trim(text) = <<>>

\* the body of handleProcessText up to the first await of processTranscript,
\* or through the catch when getAiClient throws
processTextHandler ==
    /\ IF IsBlank(inputText)
       THEN /\ error' = MsgNoInput
            /\ ev' = EvBlank
            /\ UNCHANGED <<isLoading, result, hasApiKey, runs, calls>>
       ELSE LET client == getAiClient(variant, moduleKey, apiKey)
                id == FreeId
            IN  /\ result' = ResultOnStart
                /\ IF client.ok
                   THEN /\ Cardinality(calls) < MaxCalls
                        /\ isLoading' = TRUE
                        /\ error' = NoError
                        /\ runs' = {Overtaken(r) : r \in runs} \cup {NewRun(id, 1, client.key)}
                        /\ calls' = calls \cup
                              {NewCall(id, "improve", removeTimestamps(inputText),
                                       client.key, apiKey)}
                        /\ ev' = EvIssue(1)
                        /\ UNCHANGED hasApiKey
                   ELSE /\ Stage1Rejected(client.err, NotAnError, result, ResultOnStart)
                        /\ UNCHANGED <<runs, calls>>
    /\ UNCHANGED <<variant, apiKey, moduleKey, inputText, isTranslating,
                   checkingApiKey, selecting, reading>>

\* a click on Improve & Summarize
handleProcessText == ProcessEnabled /\ processTextHandler

\* handleProcessText called over a blank input, which the disabled button
\* never does
ProcessBlankInput == MainView /\ Trim(inputText) = <<>> /\ processTextHandler

\* a summarize prompt built from the text handed to processTranscript
SummarizeInputOriginal(text, improvedText) == text

\* the text the summarize prompt is built from
SummarizeInput(text, improvedText) == improvedText

\* the improve call settles: the summarize call is issued with the improved
\* text, or processTranscript rejects and handleProcessText handles it
ImproveReturns(c, resp) ==
    /\ c \in calls
    /\ c.kind = "improve"
    /\ LET r == RunOf(c)
       IN  IF resp.ok /\ resp.text # <<>>
           THEN /\ runs' = (runs \ {r}) \cup {[r EXCEPT !.improved = resp.text]}
                /\ calls' = (calls \ {c}) \cup
                      {NewCall(r.id, "summarize", SummarizeInput(c.text, resp.text),
                               r.client, r.store)}
                /\ ev' = EvIssue(1)
                /\ UNCHANGED <<error, hasApiKey, isLoading>>
           ELSE /\ runs' = runs \ {r}
                /\ calls' = calls \ {c}
                /\ Stage1Rejected(WrapProcess(variant,
                       IF resp.ok THEN EmptyImprove(variant) ELSE resp.err),
                       IF resp.ok THEN NotAnError ELSE resp.err, r.before, result)
    /\ UNCHANGED <<variant, apiKey, moduleKey, inputText, isTranslating, result,
                   checkingApiKey, selecting, reading>>

\* the summarize call settles: setResult({ improvedText, summary }), or the catch
SummarizeReturns(c, resp) ==
    /\ c \in calls
    /\ c.kind = "summarize"
    /\ LET r == RunOf(c)
       IN  /\ runs' = runs \ {r}
           /\ calls' = calls \ {c}
           /\ IF resp.ok /\ resp.text # <<>>
              THEN /\ result' = [improvedText |-> r.improved, summary |-> resp.text]
                   /\ isLoading' = FALSE
                   /\ ev' = EvSettle(1, TRUE, NotAnError, r.before, result)
                   /\ UNCHANGED <<error, hasApiKey>>
              ELSE /\ Stage1Rejected(WrapProcess(variant,
                          IF resp.ok THEN EmptySummary(variant) ELSE resp.err),
                          IF resp.ok THEN NotAnError ELSE resp.err, r.before, result)
                   /\ UNCHANGED result
    /\ UNCHANGED <<variant, apiKey, moduleKey, inputText, isTranslating,
                   checkingApiKey, selecting, reading>>

(***************************************************************************)
(* Stage 2: handleTranslate over two translateToItalian calls              *)
(***************************************************************************)
\* catch and finally of handleTranslate
Stage2Rejected(thrown, raw, before, pre) ==
    LET h == handleApiError(thrown, hasApiKey)
    IN  /\ error' = h.error
        /\ hasApiKey' = h.hasApiKey
        /\ isTranslating' = TranslatingAfterCatch(h.handled)
        /\ ev' = [EvSettle(2, FALSE, thrown, before, pre) EXCEPT !.raw = raw]

\* a click on Translate to Italian: handleTranslate up to the await of
\* Promise.all, or through the catch when getAiClient throws
handleTranslate ==
    /\ TranslateEnabled
    /\ IF result = Null
       THEN /\ ev' = EvNone
            /\ UNCHANGED <<isTranslating, error, hasApiKey, runs, calls>>
       ELSE LET client == getAiClient(variant, moduleKey, apiKey)
                id == FreeId
            IN  IF client.ok
                THEN /\ Cardinality(calls) + 2 <= MaxCalls
                     /\ isTranslating' = TRUE
                     /\ error' = NoError
                     /\ runs' = runs \cup {NewRun(id, 2, client.key)}
                     /\ calls' = calls \cup
                           {NewCall(id, "translateImproved", Field(result, "improvedText"),
                                    client.key, apiKey),
                            NewCall(id, "translateSummary", Field(result, "summary"),
                                    client.key, apiKey)}
                     /\ ev' = EvIssue(2)
                     /\ UNCHANGED hasApiKey
                ELSE /\ Stage2Rejected(client.err, NotAnError, result, result)
                     /\ UNCHANGED <<runs, calls>>
    /\ UNCHANGED <<variant, apiKey, moduleKey, inputText, isLoading, result,
                   checkingApiKey, selecting, reading>>

\* the run of a translate call with the answer of the call recorded
WithTranslation(r, kind, text) ==
    IF kind = "translateImproved" THEN [r EXCEPT !.tImproved = text]
    ELSE [r EXCEPT !.tSummary = text]

\* one translate call of a run awaited by Promise.all settles: the join waits
\* for the other, fulfils with both, or rejects with the first failure
TranslateReturns(c, resp) ==
    /\ c \in calls
    /\ c.kind \in {"translateImproved", "translateSummary"}
    /\ c.run \in {r.id : r \in runs}
    /\ calls' = calls \ {c}
    /\ LET r == RunOf(c)
           got == WithTranslation(r, c.kind, resp.text)
       IN  IF resp.ok /\ resp.text # <<>>
           THEN IF got.tImproved # <<>> /\ got.tSummary # <<>>
                THEN /\ runs' = runs \ {r}
                     /\ result' = MergeTranslation(result, got.tImproved, got.tSummary)
                     /\ isTranslating' = FALSE
                     /\ ev' = [EvSettle(2, TRUE, NotAnError, r.before, result)
                                 EXCEPT !.overtaken = r.overtaken]
                     /\ UNCHANGED <<error, hasApiKey>>
                ELSE /\ runs' = (runs \ {r}) \cup {got}
                     /\ ev' = EvNone
                     /\ UNCHANGED <<result, isTranslating, error, hasApiKey>>
           ELSE /\ runs' = runs \ {r}
                /\ Stage2Rejected(WrapTranslate(variant,
                       IF resp.ok THEN EmptyTranslation(variant) ELSE resp.err),
                       IF resp.ok THEN NotAnError ELSE resp.err, r.before, result)
                /\ UNCHANGED result
    /\ UNCHANGED <<variant, apiKey, moduleKey, inputText, isLoading,
                   checkingApiKey, selecting, reading>>

\* a translate call settles after Promise.all has already rejected: nobody listens
OrphanReturns(c) ==
    /\ c \in calls
    /\ c.run \notin {r.id : r \in runs}
    /\ calls' = calls \ {c}
    /\ ev' = EvNone
    /\ UNCHANGED <<variant, apiKey, moduleKey, inputText, isLoading, isTranslating,
                   error, result, hasApiKey, checkingApiKey, selecting, reading, runs>>

Next ==
    \/ \E t \in BOOLEAN : CheckKey(t)
    \/ OpenSelectKey
    \/ \E o \in Keys \cup {"kept", "rejected"} : SelectKeyDone(o)
    \/ \E v \in Inputs : ChangeInput(v)
    \/ \E type \in FileTypes : handleFileChange(type)
    \/ \E t \in Inputs : ReaderLoad(t)
    \/ ReaderError
    \/ handleClearText
    \/ handleProcessText
    \/ \E c \in calls, resp \in Responses : ImproveReturns(c, resp)
    \/ \E c \in calls, resp \in Responses : SummarizeReturns(c, resp)
    \/ handleTranslate
    \/ \E c \in calls, resp \in Responses : TranslateReturns(c, resp)
    \/ \E c \in calls : OrphanReturns(c)

Spec == Init /\ [][Next]_vars

\* the controller with handleProcessText also called over a blank input
NextDirect == Next \/ ProcessBlankInput

SpecDirect == Init /\ [][NextDirect]_vars

(***************************************************************************)
(* The normalization seen through handleProcessText: the user has typed a   *)
(* text and clicks Improve & Summarize; the improve call carries            *)
(* removeTimestamps(inputText)                                              *)
(***************************************************************************)
\* length of the texts typed
MaxLen == 5

\* length of the text around a marker
MaxPad == 2

Alphabet == {"0", ":", " ", "H"}

ShortTexts == UNION {[1..n -> Alphabet] : n \in 0..MaxLen}

StampBracket == <<"[", "0", "0", ":", "0", "0", ":", "0", "5", "]">>

StampShort == <<"0", ":", "0", "5">>

StampLong == <<"1", "0", ":", "3", "0">>

Markers == {StampBracket, StampShort, StampLong}

\* texts without digits, colons or brackets
Pads == UNION {[1..n -> {"H", " ", "\n"}] : n \in 0..MaxPad}

Framed == {p \o m \o q : p \in Pads, m \in Markers, q \in Pads}

ExBracket == <<"[", "0", "0", ":", "0", "0", ":", "0", "5", "]", " ", "H", "e", "l", "l", "o", " ", "t", "h", "e", "r", "e">>

ExShort == <<"0", ":", "0", "5", " ", "H", "i">>

ExMidLine == <<"M", "e", "e", "t", " ", "a", "t", " ", "1", "0", ":", "3", "0", " ", "t", "o", "d", "a", "y">>

TextInputs == ShortTexts \cup Framed \cup {ExBracket, ExShort, ExMidLine}

InitText ==
    /\ variant \in Variants
    /\ apiKey = "k1"
    /\ moduleKey = IF variant = "module" THEN apiKey ELSE NoKey
    /\ inputText \in TextInputs
    /\ isLoading = FALSE
    /\ isTranslating = FALSE
    /\ error = NoError
    /\ result = Null
    /\ hasApiKey = TRUE
    /\ checkingApiKey = FALSE
    /\ selecting = FALSE
    /\ reading = FALSE
    /\ runs = {}
    /\ calls = {}
    /\ ev = EvNone

NextText == handleProcessText

SpecText == InitText /\ [][NextText]_vars

(***************************************************************************)
(* Properties                                                              *)
(***************************************************************************)
HasField(obj, f) == obj # Null /\ f \in DOMAIN obj

\* handleApiError takes the thrown value for an invalid-credential failure
Classified(thrown) == thrown.isError /\ Includes(thrown.message, SigNotFound)

Stage1Settled == ev.type = "settle" /\ ev.stage = 1

Stage2Settled == ev.type = "settle" /\ ev.stage = 2

\* C1: when a Stage-1 run has settled, either the result holds improvedText
\* and summary, both non-empty, or there is no result and an error is set.
C1_Stage1BothOrError ==
    Stage1Settled =>
        \/ /\ HasField(result, "improvedText") /\ HasField(result, "summary")
           /\ result.improvedText # <<>> /\ result.summary # <<>>
        \/ result = Null /\ error # NoError

\* C2: in every reachable state translatedImprovedText and translatedSummary
\* are both present in the result or both absent from it.
C2_TranslatedBothOrNeither ==
    HasField(result, "translatedImprovedText") <=> HasField(result, "translatedSummary")

\* a Stage-2 run has fulfilled and its two translations are in the result
C2_Witness ==
    /\ Stage2Settled /\ ev.ok
    /\ HasField(result, "translatedImprovedText") /\ HasField(result, "translatedSummary")

\* C3: a Stage-1 run and a Stage-2 run are never in flight together, and
\* isLoading and isTranslating are never both true.
C3_NeverBothStages ==
    /\ ~(isLoading /\ isTranslating)
    /\ ~(RunsOf(1) # {} /\ RunsOf(2) # {})

\* C4: when a Stage-2 run has settled with a failure, the result is the one
\* that existed before the run (same improvedText and summary), it has no
\* translated field, and an error is set.
C4_FailedTranslateKeepsResult ==
    (Stage2Settled /\ ~ev.ok) =>
        /\ result = ev.before
        /\ ~HasField(result, "translatedImprovedText")
        /\ ~HasField(result, "translatedSummary")
        /\ error # NoError

\* C5: whenever a model call is issued the credential is present: the
\* controller reports it present and the store holds a key.
C5_NoCallWithoutCredential ==
    ev.type = "issue" => (hasApiKey /\ apiKey # NoKey)

\* C6: after a Stage-1 run that failed with a classified invalid-credential
\* error the credential is reported absent, an error is present, and the
\* result equals the result that existed before the run was started.
C6_ResultAsBeforeRun ==
    (Stage1Settled /\ ~ev.ok /\ Classified(ev.thrown)) =>
        (~hasApiKey /\ error # NoError /\ result = ev.before)

\* C6 as amended: after such a run the credential is reported absent, an
\* error is present, and the result is the one found when the failure was
\* handled (the start of the run had set it to null).
C6_ResultUntouchedByFailure ==
    (Stage1Settled /\ ~ev.ok /\ Classified(ev.thrown)) =>
        (~hasApiKey /\ error # NoError /\ result = ev.pre)

\* a Stage-1 run started over an earlier result has failed with an
\* invalid-credential error
C6_Witness ==
    /\ Stage1Settled /\ ~ev.ok /\ Classified(ev.thrown)
    /\ ev.before # Null /\ result = Null /\ ev.hadKey

\* C7: once an invalid-credential failure of a run of either stage has been
\* handled, hasApiKey is false, the error is the fixed re-entry message and
\* not the message of the failure, and the flag of the failed stage is false.
C7_InvalidKeyHandled ==
    (ev.type = "settle" /\ ~ev.ok /\ Classified(ev.thrown)) =>
        /\ ~hasApiKey
        /\ KeyView
        /\ error = MsgInvalidKey
        /\ error # ev.thrown.message
        /\ (ev.stage = 1 => ~isLoading)
        /\ (ev.stage = 2 => ~isTranslating)

\* a Stage-2 run has failed with an invalid-credential error while the
\* credential was reported present
C7_Witness ==
    Stage2Settled /\ ~ev.ok /\ Classified(ev.thrown) /\ ev.hadKey

\* C8: once a failure that is not classified as invalid-credential has been
\* handled, hasApiKey is what it was and the error is the failure's message.
C8_OtherFailureVerbatim ==
    (ev.type = "settle" /\ ~ev.ok /\ ~Classified(ev.thrown)) =>
        (hasApiKey = ev.hadKey /\ error = ev.thrown.message)

\* a run has failed on an empty answer of the endpoint
C8_Witness ==
    /\ ev.type = "settle" /\ ~ev.ok /\ ~Classified(ev.thrown)
    /\ ev.thrown \in {WrapProcess(variant, EmptySummary(variant)),
                      WrapTranslate(variant, EmptyTranslation(variant))}
    /\ hasApiKey

\* C9: at most one Stage-1 run and at most one Stage-2 run are in flight, and
\* while a run of a stage is in flight the control starting that stage is
\* disabled.
C9_OneRunPerStage ==
    /\ Cardinality(RunsOf(1)) <= 1
    /\ Cardinality(RunsOf(2)) <= 1
    /\ (RunsOf(1) # {} => ~ProcessEnabled)
    /\ (RunsOf(2) # {} => ~TranslateEnabled)

\* a Stage-1 run is in flight over a non-empty input in the main view: only
\* isLoading keeps Improve & Summarize disabled
C9_Witness ==
    RunsOf(1) # {} /\ MainView /\ Trim(inputText) # <<>>

\* C10: every call in flight was issued with a client built from the
\* credential that was stored when its run started.
C10_ClientFromCurrentCredential ==
    \A c \in calls : c.key = c.store

TranslateKinds == {"translateImproved", "translateSummary"}

\* C11: when a Stage-1 run has issued its first model call the result is
\* null and the error is null, whatever they were before.
C11_StartClearsResultAndError ==
    (ev.type = "issue" /\ ev.stage = 1 /\ \E c \in calls : c.kind = "improve") =>
        (result = Null /\ error = NoError)

\* a Stage-1 run has just been started over a translated result
C11_Witness ==
    /\ ev.type = "issue" /\ ev.stage = 1
    /\ \E r \in RunsOf(1) : r.improved = <<>> /\ HasField(r.before, "translatedImprovedText")

\* C12: handleProcessText called over an empty or whitespace-only input
\* issues no model call, sets an error and leaves isLoading and the result
\* as they were.
C12_BlankInputRejected ==
    [][ProcessBlankInput =>
          /\ calls' = calls
          /\ runs' = runs
          /\ error' # NoError
          /\ isLoading' = isLoading
          /\ result' = result]_vars

\* handleProcessText has returned at its input check over a whitespace-only
\* input, an earlier result being shown
C12_Witness ==
    ev.type = "blank" /\ inputText = <<" ">> /\ result # Null /\ error = MsgNoInput

\* C13: an upload of a file whose type does not start with text/plain sets
\* the input error, starts no read, issues no model call and leaves
\* inputText and the result as they were.
C13_NonTextFileRejected ==
    [][(\E type \in FileTypes :
            ~StartsWith(type, <<"text/", "plain">>) /\ handleFileChange(type)) =>
          /\ error' = MsgBadFile
          /\ ~reading'
          /\ inputText' = inputText
          /\ result' = result
          /\ calls' = calls
          /\ runs' = runs]_vars

\* a file has just been rejected while a result was shown
C13_Witness ==
    ev.type = "file" /\ ~ev.ok /\ result # Null /\ error = MsgBadFile

\* C14: while the result holds translated fields the translate control is
\* disabled: no step starts a Stage-2 run or issues a translate call.
C14_TranslateOnce ==
    [][HasField(result, "translatedImprovedText") =>
          /\ ~TranslateEnabled
          /\ RunsOf(2)' \subseteq RunsOf(2)
          /\ \A c \in calls' \ calls : c.kind \notin TranslateKinds]_vars

\* a translated result is shown in the main view and no translation runs:
\* only the translated field keeps the control disabled
C14_Witness ==
    /\ HasField(result, "translatedImprovedText") /\ HasField(result, "improvedText")
    /\ MainView /\ ~isTranslating

ImproveCalls == {c \in calls : c.kind = "improve"}

\* w is a marker: [dd:dd:dd], d:dd or dd:dd
IsStamp(w) ==
    \/ /\ Len(w) = 10 /\ w[1] = "[" /\ w[4] = ":" /\ w[7] = ":" /\ w[10] = "]"
       /\ \A k \in {2, 3, 5, 6, 8, 9} : IsDigit(w[k])
    \/ /\ Len(w) = 4 /\ w[2] = ":" /\ \A k \in {1, 3, 4} : IsDigit(w[k])
    \/ /\ Len(w) = 5 /\ w[3] = ":" /\ \A k \in {1, 2, 4, 5} : IsDigit(w[k])

ContainsStamp(s) ==
    \E i \in 1..Len(s), j \in 1..Len(s) : i <= j /\ IsStamp(SubSeq(s, i, j))

\* q without one leading whitespace character
DropSpace(q) == IF q # <<>> /\ IsSpace(Head(q)) THEN Tail(q) ELSE q

\* C15: the text handed to the improve call has a leading [HH:MM:SS], H:MM
\* or HH:MM marker stripped with one optional following space, and a text
\* without a marker is handed over trimmed and otherwise unchanged;
\* "[00:00:05] Hello there" gives "Hello there", "0:05 Hi" gives "Hi".
C15_LeadingStampStripped ==
    \A c \in ImproveCalls :
        /\ inputText = ExBracket => c.text = SubSeq(ExBracket, 12, Len(ExBracket))
        /\ inputText = ExShort => c.text = <<"H", "i">>
        /\ \A m \in Markers, q \in Pads : inputText = m \o q => c.text = Trim(q)
        /\ ~ContainsStamp(inputText) => c.text = Trim(inputText)

\* "0:05 Hi" has been sent as "Hi"
C15_Witness ==
    \E c \in ImproveCalls : inputText = ExShort /\ c.text = <<"H", "i">>

\* C18: a marker that does not stand at the start of a line is left in the
\* text handed to the improve call; "Meet at 10:30 today" is sent as it is.
C18_MidLineStampKept ==
    \A c \in ImproveCalls :
        /\ inputText = ExMidLine => c.text = ExMidLine
        /\ \A p \in Pads, m \in Markers, q \in Pads :
              (inputText = p \o m \o q /\ p # <<>> /\ p[Len(p)] # "\n") =>
                  c.text = Trim(inputText)

\* C18 as amended: a marker is removed with one following whitespace
\* character wherever it stands, in the middle of a line too;
\* "Meet at 10:30 today" is sent as "Meet at today".
C18_StampRemovedAnywhere ==
    \A c \in ImproveCalls :
        /\ inputText = ExMidLine =>
              c.text = SubSeq(ExMidLine, 1, 8) \o SubSeq(ExMidLine, 15, Len(ExMidLine))
        /\ \A p \in Pads, m \in Markers, q \in Pads :
              inputText = p \o m \o q => c.text = Trim(p \o DropSpace(q))

\* "Meet at 10:30 today" has been sent without its 10:30
C18_Witness ==
    \E c \in ImproveCalls : inputText = ExMidLine /\ ~ContainsStamp(c.text)

SummarizeCalls == {c \in calls : c.kind = "summarize"}

\* the improve call was answered with a failure or with an empty text
ImproveFailed(resp) == ~(resp.ok /\ resp.text # <<>>)

\* C16: a summarize call in flight belongs to a Stage-1 run whose improve
\* call has returned a non-empty text, and carries that improved text; a
\* step in which an improve call fails or returns an empty text issues no
\* summarize call and ends the run.
C16_SummarizeAfterImprove ==
    /\ [](\A c \in SummarizeCalls :
             \E r \in RunsOf(1) :
                 /\ r.id = c.run
                 /\ r.improved # <<>>
                 /\ c.text = r.improved
                 /\ \A d \in ImproveCalls : d.run # r.id)
    /\ [][\A c \in ImproveCalls, resp \in Responses :
             (ImproveFailed(resp) /\ ImproveReturns(c, resp)) =>
                 /\ SummarizeCalls' \subseteq SummarizeCalls
                 /\ \A d \in calls' : d.run # c.run]_vars

\* a summarize call is in flight over an improved text that is not the
\* normalized input
C16_Witness ==
    \E c \in SummarizeCalls :
        c.text = RunOf(c).improved /\ c.text # removeTimestamps(inputText)

\* the catch of processTranscript that looks for 'API key not valid'
ServiceRecognises(stage, raw) ==
    variant = "local" /\ stage = 1 /\ raw.isError /\ Includes(raw.message, SigKeyNotValid)

\* the failure of the remote call is one of authentication: the endpoint
\* did not find the entity for the key, or said the key is not valid and
\* the service looks for that
AuthFailure(stage, raw) ==
    (raw.isError /\ Includes(raw.message, SigNotFound)) \/ ServiceRecognises(stage, raw)

\* C17: when a run has settled on a remote call that failed with an
\* authentication failure, the value thrown to the controller is classified
\* as invalid-credential and the credential is reported absent.
C17_AuthFailureEvicts ==
    (ev.type = "settle" /\ ~ev.ok /\ AuthFailure(ev.stage, ev.raw)) =>
        (Classified(ev.thrown) /\ ~hasApiKey /\ error = MsgInvalidKey)

\* C19: the result is null or holds both improvedText and summary.
C19_ResultNullOrComplete ==
    result = Null \/ (HasField(result, "improvedText") /\ HasField(result, "summary"))

\* C20: when a Stage-2 run has attached its translations to a result that
\* holds improvedText and summary, no Stage-1 run was started while it was
\* in flight and the two texts are those the run was started on.
C20_TranslationOfCurrentResult ==
    (Stage2Settled /\ ev.ok /\ HasField(result, "improvedText")) =>
        /\ ~ev.overtaken
        /\ Field(result, "improvedText") = Field(ev.before, "improvedText")
        /\ Field(result, "summary") = Field(ev.before, "summary")

\* C21: isLoading is true exactly while a Stage-1 run is in flight and
\* isTranslating exactly while a Stage-2 run is in flight; when a run of a
\* stage has settled, by success or by either kind of failure, the flag of
\* that stage is false.
C21_FlagsFollowRuns ==
    /\ isLoading <=> RunsOf(1) # {}
    /\ isTranslating <=> RunsOf(2) # {}
    /\ Stage1Settled => ~isLoading
    /\ Stage2Settled => ~isTranslating

\* a Stage-2 run has settled on a failure that is not an invalid-credential
\* one, after a remote call rejected, and the flag is cleared
C21_Witness ==
    /\ Stage2Settled /\ ~ev.ok /\ ev.raw.isError /\ ~Classified(ev.thrown)
    /\ ~isTranslating /\ RunsOf(2) = {}

\* C22: the text of an improve call is never empty.
C22_ImproveTextNonEmpty == \A c \in ImproveCalls : c.text # <<>>

====
